---- MODULE Spec2Model ----
(***************************************************************************)
(* Model of tools/quick_view.py: the vector loader, the raster mosaicker,  *)
(* the attribute sanitizer, the static and the interactive composer and    *)
(* the command line dispatch.                                              *)
(*                                                                         *)
(* A GeoDataFrame is a record                                              *)
(*   [crs, geometry, columns, data]                                        *)
(* crs is a CRS name ("none" for a missing CRS), geometry the sequence of  *)
(* the rows' geometries (each abstracted by its type, a row id and one     *)
(* vertex x, y), columns the sequence of attribute column names and data   *)
(* the attribute columns, each [dtype, vals].                              *)
(***************************************************************************)
EXTENDS Integers, Sequences, FiniteSets, TLC

VARIABLES env, args, stderr, mos, plot, fol, main, lv, sa

vars == <<env, args, stderr, mos, plot, fol, main, lv, sa>>

(***************************************************************************)
(* Bounds of the model.                                                    *)
(***************************************************************************)
MaxFeat == 2
MaxTrees == 3
MaxCap == 2
MaxTiles == 3
MaxCoord == 1

(***************************************************************************)
(* Program constants.                                                      *)
(***************************************************************************)
TARGET_EPSG == 25832
WGS84_EPSG == 4326
ILOC_LIMIT == 5000
CENTER_DIV == 2
SUMMARY_TILES == 5

----------------------------------------------------------------------------
(* Small helpers.                                                          *)

Range(s) == {s[i] : i \in 1..Len(s)}

Min2(a, b) == IF a <= b THEN a ELSE b

SetMin(S) == CHOOSE m \in S : \A k \in S : m <= k

SetMax(S) == CHOOSE m \in S : \A k \in S : m >= k

Take(s, n) == SubSeq(s, 1, Min2(n, Len(s)))

Reverse(s) == [i \in 1..Len(s) |-> s[Len(s) + 1 - i]]

----------------------------------------------------------------------------
(* Coordinate reference systems.                                           *)

NoCRS == "none"

CRSNames == {"EPSG:25832", "EPSG:4326", "EPSG:31467", "custom"}

(* crs.to_epsg(): the EPSG code, or -1 (None) for a CRS that has none.      *)
ToEpsg(crs) ==
    CASE crs = "EPSG:25832" -> 25832
      [] crs = "EPSG:4326" -> 4326
      [] crs = "EPSG:31467" -> 31467
      [] OTHER -> -1

CrsOfEpsg(epsg) ==
    CASE epsg = 25832 -> "EPSG:25832"
      [] epsg = 4326 -> "EPSG:4326"
      [] OTHER -> "EPSG:31467"

(* A coordinate in CRS c of the ground position g is Scale(c) * g +        *)
(* Offset(c): every CRS numbers the same ground differently.               *)
Scale(c) ==
    CASE c = "EPSG:25832" -> 4
      [] c = "EPSG:4326" -> 1
      [] c = "EPSG:31467" -> 2
      [] OTHER -> 3

Offset(c) ==
    CASE c = "EPSG:25832" -> 100
      [] c = "EPSG:4326" -> 8
      [] c = "EPSG:31467" -> 50
      [] OTHER -> 20

Proj(c, g) == Scale(c) * g + Offset(c)

Unproj(c, v) == (v - Offset(c)) \div Scale(c)

Reproject(src, dst, v) == Proj(dst, Unproj(src, v))

(* gdf.to_crs(epsg=...): every geometry is transformed, the attributes     *)
(* are kept.                                                               *)
ToCrs(gdf, epsg) ==
    [gdf EXCEPT
       !.crs = CrsOfEpsg(epsg),
       !.geometry = [i \in 1..Len(gdf.geometry) |->
           [gdf.geometry[i] EXCEPT
              !.x = Reproject(gdf.crs, CrsOfEpsg(epsg), @),
              !.y = Reproject(gdf.crs, CrsOfEpsg(epsg), @)]]]

----------------------------------------------------------------------------
(* GeoDataFrames.                                                          *)

EmptyFrame == [crs |-> NoCRS, geometry |-> <<>>, columns |-> <<>>,
               data |-> <<>>]

IsEmpty(gdf) == Len(gdf.geometry) = 0

NRows(gdf) == Len(gdf.geometry)

(* The rows idx (a sequence of row numbers) of gdf, in that order.         *)
SelectRows(gdf, idx) ==
    [gdf EXCEPT
       !.geometry = [i \in 1..Len(idx) |-> gdf.geometry[idx[i]]],
       !.data = [c \in 1..Len(gdf.data) |->
           [gdf.data[c] EXCEPT
              !.vals = [i \in 1..Len(idx) |-> gdf.data[c].vals[idx[i]]]]]]

(* gdf.iloc[:n]                                                            *)
Iloc(gdf, n) == SelectRows(gdf, [i \in 1..Min2(n, NRows(gdf)) |-> i])

(* gdf.sample(n, random_state=42): n distinct rows in the order the seeded *)
(* generator permutes them; the permutation is fixed by the seed and the   *)
(* length, and is taken here to be the reversal.                           *)
Permutation42(len) == Reverse([i \in 1..len |-> i])

Sample(gdf, n) == SelectRows(gdf, Take(Permutation42(NRows(gdf)), n))

(* gdf.total_bounds                                                        *)
TotalBounds(gdf) ==
    [minx |-> SetMin({gdf.geometry[i].x : i \in 1..NRows(gdf)}),
     miny |-> SetMin({gdf.geometry[i].y : i \in 1..NRows(gdf)}),
     maxx |-> SetMax({gdf.geometry[i].x : i \in 1..NRows(gdf)}),
     maxy |-> SetMax({gdf.geometry[i].y : i \in 1..NRows(gdf)})]

----------------------------------------------------------------------------
(* _load_vector                                                            *)

(* A line on the diagnostic stream: the message and what it names (a      *)
(* layer, or the number of a tile).                                        *)
Warn(kind, what) == [kind |-> kind, what |-> what]

(* _load_vector with the comparison of the CRS inverted.                   *)
NormalizeCrsInverted(gdf) ==
    IF gdf.crs = NoCRS THEN gdf
    ELSE IF ToEpsg(gdf.crs) = TARGET_EPSG THEN ToCrs(gdf, TARGET_EPSG)
    ELSE gdf

(* The normalisation of _load_vector: reproject unless the CRS is missing  *)
(* or is the target already.                                               *)
NormalizeCrs(gdf) ==
    IF gdf.crs = NoCRS THEN gdf
    ELSE IF ToEpsg(gdf.crs) # TARGET_EPSG THEN ToCrs(gdf, TARGET_EPSG)
    ELSE gdf

(* The warnings of _load_vector, in the order they are printed.            *)
LoadWarnings(name, gdf) ==
    (IF IsEmpty(gdf) THEN <<Warn("empty layer", name)>> ELSE <<>>)
    \o (IF gdf.crs = NoCRS THEN <<Warn("missing CRS on layer", name)>>
        ELSE <<>>)

(* _load_vector(path): the layer returned and the warnings printed;        *)
(* content is what gpd.read_file returns for the path.                     *)
_load_vector(name, content) ==
    [gdf |-> NormalizeCrs(content), warns |-> LoadWarnings(name, content)]

----------------------------------------------------------------------------
(* _sanitize_attributes                                                    *)

GeometryName == "geometry"

(* An attribute value is [kind, v, via, of]: kind is the Python type of    *)
(* the value, v its content; a string made by a conversion carries the     *)
(* conversion (via) and the kind it was made of (of), so that the two      *)
(* conversions of one value differ, as str() and isoformat() do.           *)
Val(kind, v) == [kind |-> kind, v |-> v, via |-> "", of |-> ""]

(* Series.astype(str) on one value                                         *)
AsTypeStr(val) ==
    [kind |-> "str", v |-> val.v, via |-> "astype(str)", of |-> val.kind]

(* v.isoformat()                                                           *)
IsoFormat(val) ==
    [kind |-> "str", v |-> val.v, via |-> "isoformat", of |-> val.kind]

(* pd.api.types.is_datetime64_any_dtype / is_timedelta64_dtype             *)
IsDatetime64AnyDtype(col) == col.dtype = "datetime64[ns]"

IsTimedelta64Dtype(col) == col.dtype = "timedelta64[ns]"

(* isinstance(v, (datetime, pd.Timestamp)): pd.Timestamp subclasses        *)
(* datetime; timedelta and pd.Timedelta do not.                            *)
IsDatetimeInstance(val) == val.kind \in {"datetime", "Timestamp"}

(* The loop body of _sanitize_attributes on one attribute column.          *)
SanitizeColumn(col) ==
    IF IsDatetime64AnyDtype(col) \/ IsTimedelta64Dtype(col)
    THEN [dtype |-> "object",
          vals |-> [i \in 1..Len(col.vals) |-> AsTypeStr(col.vals[i])]]
    ELSE [col EXCEPT !.vals = [i \in 1..Len(col.vals) |->
             IF IsDatetimeInstance(col.vals[i]) THEN IsoFormat(col.vals[i])
             ELSE col.vals[i]]]

(* [c for c in keep_cols if c in gdf.columns and c != gdf.geometry.name]   *)
RECURSIVE KeepCols(_, _)
KeepCols(keep_cols, gdf) ==
    IF keep_cols = <<>> THEN <<>>
    ELSE IF Head(keep_cols) \in Range(gdf.columns)
            /\ Head(keep_cols) # GeometryName
         THEN <<Head(keep_cols)>> \o KeepCols(Tail(keep_cols), gdf)
         ELSE KeepCols(Tail(keep_cols), gdf)

ColIndex(gdf, name) == CHOOSE i \in 1..Len(gdf.columns) : gdf.columns[i] = name

(* gdf[[gdf.geometry.name] + keep_cols]                                    *)
SelectColumns(gdf, names) ==
    [gdf EXCEPT
       !.columns = names,
       !.data = [i \in 1..Len(names) |-> gdf.data[ColIndex(gdf, names[i])]]]

(* _sanitize_attributes(gdf, keep_cols); keep is [given, cols], given      *)
(* FALSE for keep_cols=None.                                               *)
_sanitize_attributes(gdf, keep) ==
    LET kept == IF keep.given THEN SelectColumns(gdf, KeepCols(keep.cols, gdf))
                ELSE gdf
    IN  [kept EXCEPT
           !.data = [i \in 1..Len(kept.data) |-> SanitizeColumn(kept.data[i])]]

----------------------------------------------------------------------------
(* _to_wgs84: the layer in EPSG:4326, or the ValueError of a missing CRS.  *)

_to_wgs84_raises(gdf) == gdf.crs = NoCRS

_to_wgs84(gdf) ==
    IF ToEpsg(gdf.crs) # WGS84_EPSG THEN ToCrs(gdf, WGS84_EPSG) ELSE gdf

----------------------------------------------------------------------------
(* State of the functions that are not running.                            *)

MosIdle == [pc |-> "idle", i |-> 1, sources |-> <<>>, handles |-> <<>>,
            result |-> "unset"]

PlotIdle == [pc |-> "idle", layers |-> <<>>, drawn |-> <<>>,
             output |-> "unset", err |-> ""]

FolIdle == [pc |-> "idle", layers |-> <<>>, center |-> <<>>, m |-> <<>>,
            i |-> 1, control |-> {}, err |-> ""]

MainIdle == [pc |-> "idle", ret |-> -1, ops |-> <<>>, stdout |-> <<>>]

LvIdle == [pc |-> "idle", content |-> EmptyFrame, out |-> EmptyFrame,
           warns |-> <<>>]

SaIdle == [pc |-> "idle", gdf |-> EmptyFrame,
           keep_cols |-> [given |-> FALSE, cols |-> <<>>],
           out |-> EmptyFrame]

EnvIdle == [dir_exists |-> TRUE, files |-> <<>>, tifs |-> <<>>,
            merge_fails |-> FALSE]

ArgsIdle == [summary |-> FALSE, plot |-> FALSE, folium_out |-> FALSE,
             max_trees |-> 0, include_orthophoto |-> FALSE,
             out_png |-> FALSE]

----------------------------------------------------------------------------
(* _orthophoto_mosaic                                                      *)
(* A raster handle is [tile, open]; mos.handles holds every handle the     *)
(* process opened, mos.sources the list `sources` (indices of handles).    *)

(* The warning of one opened tile (at most one: if / elif).                *)
TileWarnings(i, tif) ==
    IF tif.crs = NoCRS
    THEN <<Warn("orthophoto missing CRS (used as-is)", i)>>
    ELSE IF ToEpsg(tif.crs) # TARGET_EPSG
         THEN <<Warn("orthophoto not EPSG:25832", i)>>
         ELSE <<>>

(* src.close() after the loop instead of in it: only the last source is   *)
(* closed.                                                                 *)
CloseLast(handles, sources) ==
    [h \in 1..Len(handles) |->
        IF sources # <<>> /\ h = sources[Len(sources)]
        THEN [handles[h] EXCEPT !.open = FALSE]
        ELSE handles[h]]

(* for src in sources: src.close()                                         *)
CloseAll(handles, sources) ==
    [h \in 1..Len(handles) |->
        IF h \in Range(sources) THEN [handles[h] EXCEPT !.open = FALSE]
        ELSE handles[h]]

OpenHandles(handles) == {h \in 1..Len(handles) : handles[h].open}

(* The call: sources = []                                                  *)
MosCall == [mos EXCEPT !.pc = "loop", !.i = 1, !.sources = <<>>,
                       !.result = "unset"]

(* One iteration of the loop over tifs: rasterio.open fails and the error  *)
(* leaves the function, or the tile is opened, checked and appended.       *)
MosOpen ==
    /\ mos.pc = "loop"
    /\ mos.i <= Len(env.tifs)
    /\ LET tif == env.tifs[mos.i]
       IN  IF ~tif.opens
           THEN /\ mos' = [mos EXCEPT !.pc = "raised"]
                /\ UNCHANGED stderr
           ELSE /\ mos' = [mos EXCEPT
                      !.handles = Append(@, [tile |-> mos.i, open |-> TRUE]),
                      !.sources = Append(@, Len(mos.handles) + 1),
                      !.i = @ + 1]
                /\ stderr' = stderr \o TileWarnings(mos.i, tif)
    /\ UNCHANGED <<env, args, plot, fol, main, lv, sa>>

(* if not sources: return None                                             *)
MosLoopEnd ==
    /\ mos.pc = "loop"
    /\ mos.i > Len(env.tifs)
    /\ mos' = IF mos.sources = <<>>
              THEN [mos EXCEPT !.pc = "returned", !.result = "None"]
              ELSE [mos EXCEPT !.pc = "merge"]
    /\ UNCHANGED <<env, args, stderr, plot, fol, main, lv, sa>>

(* mosaic, transform = merge(sources); merge raises on tiles it cannot     *)
(* combine.                                                                *)
MosMerge ==
    /\ mos.pc = "merge"
    /\ mos' = IF env.merge_fails
              THEN [mos EXCEPT !.pc = "raised"]
              ELSE [mos EXCEPT !.pc = "close", !.result = "mosaic"]
    /\ UNCHANGED <<env, args, stderr, plot, fol, main, lv, sa>>

(* The closing loop and return mosaic, transform.                          *)
MosClose ==
    /\ mos.pc = "close"
    /\ mos' = [mos EXCEPT !.pc = "returned",
                          !.handles = CloseAll(mos.handles, mos.sources)]
    /\ UNCHANGED <<env, args, stderr, plot, fol, main, lv, sa>>

MosNext == MosOpen \/ MosLoopEnd \/ MosMerge \/ MosClose

(* The tiles a directory can hold.                                         *)
TileCRS == {NoCRS, "EPSG:25832", "EPSG:31467"}

Tile(crs, opens) == [crs |-> crs, opens |-> opens]

TileKinds == {Tile(c, TRUE) : c \in TileCRS} \cup {Tile("EPSG:25832", FALSE)}

TileLists == UNION {[1..n -> TileKinds] : n \in 0..MaxTiles}

(* _orthophoto_mosaic called on every list of tiles.                       *)
InitMosaic ==
    /\ \E tifs \in TileLists, mf \in BOOLEAN :
          env = [EnvIdle EXCEPT !.tifs = tifs, !.merge_fails = mf]
    /\ args = ArgsIdle
    /\ stderr = <<>>
    /\ mos = [MosIdle EXCEPT !.pc = "loop"]
    /\ plot = PlotIdle
    /\ fol = FolIdle
    /\ main = MainIdle
    /\ lv = LvIdle
    /\ sa = SaIdle

SpecMosaic == InitMosaic /\ [][MosNext]_vars

(* C1: whenever _orthophoto_mosaic returns, with None or with the mosaic,  *)
(* no handle it opened is open, warned tiles included; with no tile path   *)
(* it returns None and has opened no handle.                               *)
C1_ClosedAtReturn ==
    mos.pc = "returned" =>
        /\ OpenHandles(mos.handles) = {}
        /\ Len(mos.handles) = Len(env.tifs)
        /\ env.tifs = <<>> => (mos.result = "None" /\ mos.handles = <<>>)
        /\ env.tifs # <<>> => mos.result = "mosaic"

(* A return with the mosaic of three tiles, one without CRS and one in     *)
(* another CRS, both warned about.                                         *)
C1_Witness ==
    /\ mos.pc = "returned"
    /\ mos.result = "mosaic"
    /\ Len(mos.handles) = 3
    /\ \E i \in 1..Len(env.tifs) : env.tifs[i].crs = NoCRS
    /\ \E i \in 1..Len(env.tifs) : env.tifs[i].crs = "EPSG:31467"
    /\ Len(stderr) >= 2

(* C10: on the failure exits too (a later open fails, merge fails) every   *)
(* handle opened in the call is closed when the error leaves the function. *)
C10_ClosedAtRaise ==
    mos.pc = "raised" => OpenHandles(mos.handles) = {}

----------------------------------------------------------------------------
(* The data directory: the five named layers.                              *)

LayerNames == {"trees", "parcels", "buildings", "streets", "greens"}

Absent == [exists |-> FALSE, content |-> EmptyFrame]

Present(content) == [exists |-> TRUE, content |-> content]

(* Where a layer lies on the ground: the layers overlap without being      *)
(* equal.                                                                  *)
Base(name) ==
    CASE name = "trees" -> 0
      [] name = "parcels" -> 1
      [] name = "buildings" -> 3
      [] name = "streets" -> 2
      [] OTHER -> 5

(* A coordinate as the file stores it: in its CRS, or as it is when the    *)
(* file names none.                                                        *)
Stored(crs, g) == IF crs = NoCRS THEN g ELSE Proj(crs, g)

(* A layer file of n features of one geometry type in one CRS, with one    *)
(* datetime attribute column.                                              *)
LayerContent(name, crs, n, type) ==
    [crs |-> crs,
     geometry |-> [i \in 1..n |->
         [type |-> type, id |-> i,
          x |-> Stored(crs, Base(name) + i),
          y |-> Stored(crs, Base(name) + 2 * i)]],
     columns |-> <<"datum">>,
     data |-> <<[dtype |-> "datetime64[ns]",
                 vals |-> [i \in 1..n |-> Val("Timestamp", i)]]>>]

GeomType(name) ==
    CASE name = "trees" -> "Point"
      [] name = "streets" -> "LineString"
      [] OTHER -> "Polygon"

(* What the file of a polygon or line layer can be: absent, up to MaxFeat  *)
(* features in the working CRS, or one feature in another or in no CRS.    *)
LayerFiles(name) ==
    {Absent} \cup
    {Present(LayerContent(name, "EPSG:25832", n, GeomType(name))) :
        n \in 0..MaxFeat} \cup
    {Present(LayerContent(name, crs, 1, GeomType(name))) :
        crs \in {NoCRS, "EPSG:31467"}}

(* What the tree file can be: absent, up to MaxTrees points in the working *)
(* CRS, a point in no CRS, or (a wrong file) polygons.                     *)
TreeFiles ==
    {Absent} \cup
    {Present(LayerContent("trees", "EPSG:25832", n, "Point")) :
        n \in 0..MaxTrees} \cup
    {Present(LayerContent("trees", NoCRS, 1, "Point")),
     Present(LayerContent("trees", "EPSG:25832", MaxTrees, "Polygon"))}

Caps == -1..MaxCap

----------------------------------------------------------------------------
(* Tree sampling, the same in both composers:                              *)
(*   if max_trees and len(trees) > max_trees:                              *)
(*       trees = trees.sample(max_trees, random_state=42)                  *)

Sampled(trees, max_trees) == max_trees # 0 /\ NRows(trees) > max_trees

(* DataFrame.sample raises ValueError for a negative n.                    *)
CapRaises(trees, max_trees) == Sampled(trees, max_trees) /\ max_trees < 0

(* The sampling with >= for >.                                             *)
CapTreesAtCap(trees, max_trees) ==
    IF max_trees # 0 /\ NRows(trees) >= max_trees
    THEN Sample(trees, max_trees) ELSE trees

CapTrees(trees, max_trees) ==
    IF Sampled(trees, max_trees) THEN Sample(trees, max_trees) ELSE trees

----------------------------------------------------------------------------
(* plot_layers                                                             *)

Style(name) ==
    CASE name = "trees" -> [color |-> "forestgreen", fill |-> "points"]
      [] name = "parcels" -> [color |-> "#999999", fill |-> "none"]
      [] name = "buildings" -> [color |-> "#aa0000", fill |-> "alpha 0.3"]
      [] OTHER -> [color |-> "#0055aa", fill |-> "line"]

Layer(name, gdf) == [name |-> name, gdf |-> gdf, style |-> Style(name)]

(* One plot call on the axes: plot.drawn is the sequence of the calls, the  *)
(* order in which the layers are drawn.                                    *)
Drawn(name, n) == [layer |-> name, n |-> n]

(* _plot_vectors iterating over reversed(layers).                          *)
RECURSIVE _plot_vectors_reversed(_)
_plot_vectors_reversed(layers) ==
    IF layers = <<>> THEN <<>>
    ELSE _plot_vectors_reversed(Tail(layers))
         \o (IF IsEmpty(Head(layers).gdf) THEN <<>>
             ELSE <<Drawn(Head(layers).name, NRows(Head(layers).gdf))>>)

(* _plot_vectors: the layers drawn, in the order of the list, the empty    *)
(* ones skipped.                                                           *)
RECURSIVE _plot_vectors(_)
_plot_vectors(layers) ==
    IF layers = <<>> THEN <<>>
    ELSE IF IsEmpty(Head(layers).gdf) THEN _plot_vectors(Tail(layers))
         ELSE <<Drawn(Head(layers).name, NRows(Head(layers).gdf))>>
              \o _plot_vectors(Tail(layers))

(* The call: layers = []                                                   *)
PlotCall == [PlotIdle EXCEPT !.pc = "trees"]

(* Lines 107-113: the tree layer is loaded, sampled and appended, or its   *)
(* absence is warned about.                                                *)
PlotTrees ==
    /\ plot.pc = "trees"
    /\ IF env.files["trees"].exists
       THEN LET l == _load_vector("trees", env.files["trees"].content)
            IN  /\ stderr' = stderr \o l.warns
                /\ plot' = IF CapRaises(l.gdf, args.max_trees)
                           THEN [plot EXCEPT
                                   !.pc = "raised",
                                   !.err = "ValueError: negative sample size"]
                           ELSE [plot EXCEPT
                                   !.pc = "parcels",
                                   !.layers = Append(@,
                                       Layer("trees",
                                             CapTrees(l.gdf, args.max_trees)))]
       ELSE /\ stderr' = Append(stderr, Warn("missing tree layer", "trees"))
            /\ plot' = [plot EXCEPT !.pc = "parcels"]
    /\ UNCHANGED <<env, args, mos, fol, main, lv, sa>>

(* Lines 115-123, one layer: loaded, cut to its first 5000 features and    *)
(* appended if its file exists, and nothing otherwise.                     *)
PlotLoad(name, next) ==
    /\ plot.pc = name
    /\ IF env.files[name].exists
       THEN LET l == _load_vector(name, env.files[name].content)
            IN  /\ stderr' = stderr \o l.warns
                /\ plot' = [plot EXCEPT
                              !.pc = next,
                              !.layers = Append(@,
                                  Layer(name, Iloc(l.gdf, ILOC_LIMIT)))]
       ELSE /\ stderr' = stderr
            /\ plot' = [plot EXCEPT !.pc = next]
    /\ UNCHANGED <<env, args, mos, fol, main, lv, sa>>

PlotParcels == PlotLoad("parcels", "buildings")

PlotBuildings == PlotLoad("buildings", "streets")

PlotStreets == PlotLoad("streets", "raster")

(* if include_raster: mosaic = _orthophoto_mosaic(raster_files)            *)
PlotRaster ==
    /\ plot.pc = "raster"
    /\ IF args.include_orthophoto
       THEN /\ plot' = [plot EXCEPT !.pc = "in_mosaic"]
            /\ mos' = MosCall
       ELSE /\ plot' = [plot EXCEPT !.pc = "vectors"]
            /\ mos' = mos
    /\ UNCHANGED <<env, args, stderr, fol, main, lv, sa>>

(* _orthophoto_mosaic is back: its error leaves plot_layers too, a mosaic  *)
(* is drawn with rio_show, None is warned about.                           *)
PlotMosaicDone ==
    /\ plot.pc = "in_mosaic"
    /\ mos.pc \in {"returned", "raised"}
    /\ IF mos.pc = "raised"
       THEN /\ plot' = [plot EXCEPT !.pc = "raised",
                                    !.err = "error of _orthophoto_mosaic"]
            /\ stderr' = stderr
       ELSE IF mos.result = "mosaic"
            THEN /\ plot' = [plot EXCEPT
                               !.pc = "vectors",
                               !.drawn = Append(@,
                                   Drawn("raster", Len(mos.sources)))]
                 /\ stderr' = stderr
            ELSE /\ plot' = [plot EXCEPT !.pc = "vectors"]
                 /\ stderr' = Append(stderr,
                        Warn("no orthophoto tiles found", "raster"))
    /\ UNCHANGED <<env, args, mos, fol, main, lv, sa>>

(* _plot_vectors(ax, layers)                                               *)
PlotDraw ==
    /\ plot.pc = "vectors"
    /\ plot' = [plot EXCEPT !.pc = "output",
                            !.drawn = @ \o _plot_vectors(plot.layers)]
    /\ UNCHANGED <<env, args, stderr, mos, fol, main, lv, sa>>

(* plt.savefig(out_path) or plt.show()                                     *)
PlotOutput ==
    /\ plot.pc = "output"
    /\ plot' = [plot EXCEPT
                  !.pc = "returned",
                  !.output = IF args.out_png THEN "savefig" ELSE "show"]
    /\ UNCHANGED <<env, args, stderr, mos, fol, main, lv, sa>>

PlotNext ==
    \/ PlotTrees
    \/ PlotParcels
    \/ PlotBuildings
    \/ PlotStreets
    \/ PlotRaster
    \/ PlotMosaicDone
    \/ PlotDraw
    \/ PlotOutput

----------------------------------------------------------------------------
(* export_folium_map                                                       *)

(* The order in which the layers are loaded, tried as the reference layer  *)
(* and added to the map.                                                   *)
LoadOrder == <<"trees", "parcels", "buildings", "streets", "greens">>

RefOrder == <<"trees", "parcels", "streets", "greens", "buildings">>

AddOrder == <<"parcels", "buildings", "greens", "streets", "trees">>

(* _load_vector(file) if file.exists() else gpd.GeoDataFrame(geometry=[])  *)
LoadOrEmpty(name) ==
    IF env.files[name].exists
    THEN _load_vector(name, env.files[name].content)
    ELSE [gdf |-> EmptyFrame, warns |-> <<>>]

RECURSIVE LoadWarns(_)
LoadWarns(order) ==
    IF order = <<>> THEN <<>>
    ELSE LoadOrEmpty(Head(order)).warns \o LoadWarns(Tail(order))

(* The first non-empty layer of the order, or "" (ref_layer is None).      *)
RECURSIVE RefLayer(_, _)
RefLayer(order, layers) ==
    IF order = <<>> THEN ""
    ELSE IF ~IsEmpty(layers[Head(order)]) THEN Head(order)
         ELSE RefLayer(Tail(order), layers)

(* The center taken from ref_layer instead of ref_wgs84.                   *)
CenterUnprojected(ref_layer) ==
    LET b == TotalBounds(ref_layer)
    IN  [lat |-> [num |-> b.miny + b.maxy, den |-> CENTER_DIV],
         lon |-> [num |-> b.minx + b.maxx, den |-> CENTER_DIV]]

(* center = [(miny + maxy) / 2, (minx + maxx) / 2] of the reference layer  *)
(* in WGS84; a coordinate of the center is the fraction num / den.         *)
Center(ref_layer) ==
    LET b == TotalBounds(_to_wgs84(ref_layer))
    IN  [lat |-> [num |-> b.miny + b.maxy, den |-> CENTER_DIV],
         lon |-> [num |-> b.minx + b.maxx, den |-> CENTER_DIV]]

(* A child of the map m.                                                   *)
GeoJson(name, gdf) ==
    [kind |-> "GeoJson", name |-> name, data |-> gdf, location |-> <<>>]

CircleMarker(point) ==
    [kind |-> "CircleMarker", name |-> "", data |-> EmptyFrame,
     location |-> <<point.y, point.x>>]

LayerControl ==
    [kind |-> "LayerControl", name |-> "", data |-> EmptyFrame,
     location |-> <<>>]

(* The rows the marker loop handles before row.geometry.y fails: only a    *)
(* Point has x and y.                                                      *)
RECURSIVE LeadingPoints(_)
LeadingPoints(geometry) ==
    IF geometry = <<>> \/ Head(geometry).type # "Point" THEN 0
    ELSE 1 + LeadingPoints(Tail(geometry))

(* add_geojson(gdf, name, ...): the map after the call and the error that  *)
(* left it, "" for none.                                                   *)
add_geojson(m, gdf, name, point_style) ==
    IF IsEmpty(gdf) THEN [m |-> m, err |-> ""]
    ELSE IF _to_wgs84_raises(gdf)
    THEN [m |-> m, err |-> "Cannot convert to WGS84; missing CRS"]
    ELSE LET gdf_wgs84 == _sanitize_attributes(_to_wgs84(gdf),
                              [given |-> FALSE, cols |-> <<>>])
             k == LeadingPoints(gdf_wgs84.geometry)
         IN  IF point_style
             THEN [m |-> m \o [i \in 1..k |->
                                  CircleMarker(gdf_wgs84.geometry[i])],
                   err |-> IF k < NRows(gdf_wgs84) THEN "AttributeError"
                           ELSE ""]
             ELSE [m |-> Append(m, GeoJson(name, gdf_wgs84)), err |-> ""]

(* What folium's LayerControl lists when the map is rendered: the children *)
(* of the map that are layers (GeoJson is one, CircleMarker is not).       *)
ControlEntries(m) ==
    {m[i].name : i \in {j \in 1..Len(m) : m[j].kind = "GeoJson"}}

FolCall == [FolIdle EXCEPT !.pc = "load"]

(* Lines 189-193: the five layers are loaded.                              *)
FolLoad ==
    /\ fol.pc = "load"
    /\ fol' = [fol EXCEPT
                 !.pc = "sample",
                 !.layers = [n \in LayerNames |-> LoadOrEmpty(n).gdf]]
    /\ stderr' = stderr \o LoadWarns(LoadOrder)
    /\ UNCHANGED <<env, args, mos, plot, main, lv, sa>>

(* Lines 195-196: the trees are sampled.                                   *)
FolSample ==
    /\ fol.pc = "sample"
    /\ fol' = IF CapRaises(fol.layers["trees"], args.max_trees)
              THEN [fol EXCEPT !.pc = "raised",
                               !.err = "ValueError: negative sample size"]
              ELSE [fol EXCEPT
                      !.pc = "center",
                      !.layers["trees"] = CapTrees(@, args.max_trees)]
    /\ UNCHANGED <<env, args, stderr, mos, plot, main, lv, sa>>

(* Lines 199-211: the reference layer and the center of the map.           *)
FolCenter ==
    /\ fol.pc = "center"
    /\ LET ref == RefLayer(RefOrder, fol.layers)
       IN  fol' =
             IF ref = ""
             THEN [fol EXCEPT
                     !.pc = "raised",
                     !.err = "No vector data available to center map"]
             ELSE IF _to_wgs84_raises(fol.layers[ref])
             THEN [fol EXCEPT
                     !.pc = "raised",
                     !.err = "Cannot convert to WGS84; missing CRS"]
             ELSE [fol EXCEPT !.pc = "add", !.i = 1,
                              !.center = Center(fol.layers[ref])]
    /\ UNCHANGED <<env, args, stderr, mos, plot, main, lv, sa>>

(* The name add_geojson is given for a layer.                              *)
OverlayName(layer) ==
    CASE layer = "parcels" -> "Parcels"
      [] layer = "buildings" -> "Buildings"
      [] layer = "greens" -> "Greens"
      [] layer = "streets" -> "Streets"
      [] OTHER -> "Trees"

(* Lines 230-234: one call of add_geojson.                                 *)
FolAdd ==
    /\ fol.pc = "add"
    /\ fol.i <= Len(AddOrder)
    /\ LET name == AddOrder[fol.i]
           r == add_geojson(fol.m, fol.layers[name], OverlayName(name),
                           name = "trees")
       IN  fol' = IF r.err # ""
                  THEN [fol EXCEPT !.pc = "raised", !.m = r.m, !.err = r.err]
                  ELSE [fol EXCEPT !.i = @ + 1, !.m = r.m]
    /\ UNCHANGED <<env, args, stderr, mos, plot, main, lv, sa>>

(* folium.LayerControl().add_to(m)                                         *)
FolControl ==
    /\ fol.pc = "add"
    /\ fol.i > Len(AddOrder)
    /\ fol' = [fol EXCEPT !.pc = "save", !.m = Append(@, LayerControl)]
    /\ UNCHANGED <<env, args, stderr, mos, plot, main, lv, sa>>

(* m.save(out_path): the map is rendered, the control with its entries.    *)
FolSave ==
    /\ fol.pc = "save"
    /\ fol' = [fol EXCEPT !.pc = "returned", !.control = ControlEntries(fol.m)]
    /\ UNCHANGED <<env, args, stderr, mos, plot, main, lv, sa>>

FolNext == FolLoad \/ FolSample \/ FolCenter \/ FolAdd \/ FolControl \/ FolSave

----------------------------------------------------------------------------
(* The composers called on every data directory.                           *)

(* The orthophoto tiles of the directory and whether merge accepts them.   *)
RasterMenu ==
    {[tifs |-> <<>>, merge_fails |-> FALSE],
     [tifs |-> <<Tile("EPSG:25832", TRUE)>>, merge_fails |-> FALSE],
     [tifs |-> <<Tile(NoCRS, TRUE), Tile("EPSG:31467", TRUE)>>,
      merge_fails |-> FALSE],
     [tifs |-> <<Tile("EPSG:25832", TRUE), Tile("EPSG:25832", FALSE)>>,
      merge_fails |-> FALSE],
     [tifs |-> <<Tile("EPSG:25832", TRUE)>>, merge_fails |-> TRUE]}

Dirs(GreenFiles) ==
    {[n \in LayerNames |->
        CASE n = "trees" -> t
          [] n = "parcels" -> p
          [] n = "buildings" -> b
          [] n = "streets" -> s
          [] OTHER -> g] :
     t \in TreeFiles, p \in LayerFiles("parcels"),
     b \in LayerFiles("buildings"), s \in LayerFiles("streets"),
     g \in GreenFiles}

(* plot_layers on every directory (it does not read the greens), with and  *)
(* without the orthophoto.                                                 *)
InitPlot ==
    /\ \E files \in Dirs({Absent}), cap \in Caps, raster \in BOOLEAN,
          r \in RasterMenu :
          /\ ~raster => r.tifs = <<>> /\ ~r.merge_fails
          /\ env = [EnvIdle EXCEPT !.files = files, !.tifs = r.tifs,
                                   !.merge_fails = r.merge_fails]
          /\ args = [ArgsIdle EXCEPT !.plot = TRUE, !.max_trees = cap,
                                     !.include_orthophoto = raster]
    /\ plot = PlotCall
    /\ fol = FolIdle

(* export_folium_map on every directory.                                   *)
InitFolium ==
    /\ \E files \in Dirs(LayerFiles("greens")), cap \in Caps :
          /\ env = [EnvIdle EXCEPT !.files = files]
          /\ args = [ArgsIdle EXCEPT !.folium_out = TRUE, !.max_trees = cap]
    /\ plot = PlotIdle
    /\ fol = FolCall

InitCompose ==
    /\ InitPlot \/ InitFolium
    /\ stderr = <<>>
    /\ mos = MosIdle
    /\ main = MainIdle
    /\ lv = LvIdle
    /\ sa = SaIdle

ComposeNext == PlotNext \/ FolNext \/ MosNext

SpecCompose == InitCompose /\ [][ComposeNext]_vars

----------------------------------------------------------------------------
(* summarize_crs: the lines printed, and whether a tile of the sample      *)
(* fails to open (the with block closes what it opened).                   *)

RECURSIVE SummaryLines(_)
SummaryLines(order) ==
    IF order = <<>> THEN <<>>
    ELSE <<IF env.files[Head(order)].exists
           THEN [layer |-> Head(order),
                 crs |-> env.files[Head(order)].content.crs]
           ELSE [layer |-> Head(order), crs |-> "missing"]>>
         \o SummaryLines(Tail(order))

SampleTiles == Take(env.tifs, SUMMARY_TILES)

SummaryRaises == \E i \in 1..Len(SampleTiles) : ~SampleTiles[i].opens

TileLine ==
    [layer |-> "orthophoto tiles",
     crs |-> <<Len(env.tifs), {SampleTiles[i].crs : i \in 1..Len(SampleTiles)}>>]

----------------------------------------------------------------------------
(* main                                                                    *)

(* parse_args and _data_dir: a missing data directory is an error before   *)
(* anything else.                                                          *)
MainDataDir ==
    /\ main.pc = "start"
    /\ main' = IF env.dir_exists THEN [main EXCEPT !.pc = "flags"]
               ELSE [main EXCEPT !.pc = "raised"]
    /\ UNCHANGED <<env, args, stderr, mos, plot, fol, lv, sa>>

(* main without the return 1 of lines 260-262.                             *)
MainFlagsFallThrough ==
    /\ main.pc = "flags"
    /\ IF ~(args.summary \/ args.plot \/ args.folium_out)
       THEN /\ stderr' = Append(stderr, Warn("Nothing to do", "main"))
            /\ main' = [main EXCEPT !.pc = "summary"]
       ELSE /\ stderr' = stderr
            /\ main' = [main EXCEPT !.pc = "summary"]
    /\ UNCHANGED <<env, args, mos, plot, fol, lv, sa>>

(* Lines 260-262: nothing to do.                                           *)
MainFlags ==
    /\ main.pc = "flags"
    /\ IF ~(args.summary \/ args.plot \/ args.folium_out)
       THEN /\ stderr' = Append(stderr, Warn("Nothing to do", "main"))
            /\ main' = [main EXCEPT !.pc = "returned", !.ret = 1]
       ELSE /\ stderr' = stderr
            /\ main' = [main EXCEPT !.pc = "summary"]
    /\ UNCHANGED <<env, args, mos, plot, fol, lv, sa>>

(* if args.summary: summarize_crs(data_dir)                                *)
MainSummary ==
    /\ main.pc = "summary"
    /\ main' =
         IF ~args.summary THEN [main EXCEPT !.pc = "plot"]
         ELSE IF SummaryRaises
         THEN [main EXCEPT !.pc = "raised", !.ops = Append(@, "summary"),
                           !.stdout = @ \o SummaryLines(LoadOrder)]
         ELSE [main EXCEPT !.pc = "plot", !.ops = Append(@, "summary"),
                           !.stdout = @ \o SummaryLines(LoadOrder)
                                        \o <<TileLine>>]
    /\ UNCHANGED <<env, args, stderr, mos, plot, fol, lv, sa>>

(* if args.plot: plot_layers(...)                                          *)
MainPlot ==
    /\ main.pc = "plot"
    /\ IF args.plot
       THEN /\ main' = [main EXCEPT !.pc = "in_plot", !.ops = Append(@, "plot")]
            /\ plot' = PlotCall
       ELSE /\ main' = [main EXCEPT !.pc = "folium"]
            /\ plot' = plot
    /\ UNCHANGED <<env, args, stderr, mos, fol, lv, sa>>

(* plot_layers is back; its error leaves main.                             *)
MainPlotDone ==
    /\ main.pc = "in_plot"
    /\ plot.pc \in {"returned", "raised"}
    /\ main' = IF plot.pc = "raised" THEN [main EXCEPT !.pc = "raised"]
               ELSE [main EXCEPT !.pc = "folium"]
    /\ UNCHANGED <<env, args, stderr, mos, plot, fol, lv, sa>>

(* if args.folium_out: export_folium_map(...)                              *)
MainFolium ==
    /\ main.pc = "folium"
    /\ IF args.folium_out
       THEN /\ main' = [main EXCEPT !.pc = "in_folium",
                                    !.ops = Append(@, "folium")]
            /\ fol' = FolCall
       ELSE /\ main' = [main EXCEPT !.pc = "returned", !.ret = 0]
            /\ fol' = fol
    /\ UNCHANGED <<env, args, stderr, mos, plot, lv, sa>>

(* export_folium_map is back; return 0, or its error leaves main.          *)
MainFoliumDone ==
    /\ main.pc = "in_folium"
    /\ fol.pc \in {"returned", "raised"}
    /\ main' = IF fol.pc = "raised" THEN [main EXCEPT !.pc = "raised"]
               ELSE [main EXCEPT !.pc = "returned", !.ret = 0]
    /\ UNCHANGED <<env, args, stderr, mos, plot, fol, lv, sa>>

MainNext ==
    \/ MainDataDir
    \/ MainFlags
    \/ MainSummary
    \/ MainPlot
    \/ MainPlotDone
    \/ MainFolium
    \/ MainFoliumDone

(* The directories and command lines main is run on.                       *)
MainTreeFiles ==
    {Absent,
     Present(LayerContent("trees", "EPSG:25832", 2, "Point")),
     Present(LayerContent("trees", NoCRS, 1, "Point"))}

MainLayerFiles(name) ==
    {Absent, Present(LayerContent(name, "EPSG:25832", 1, GeomType(name)))}

MainDirs ==
    {[n \in LayerNames |->
        CASE n = "trees" -> t
          [] n = "parcels" -> p
          [] n = "greens" -> g
          [] OTHER -> Absent] :
     t \in MainTreeFiles, p \in MainLayerFiles("parcels"),
     g \in MainLayerFiles("greens")}

Init ==
    /\ \E files \in MainDirs, r \in RasterMenu, d \in BOOLEAN :
          env = [dir_exists |-> d, files |-> files, tifs |-> r.tifs,
                 merge_fails |-> r.merge_fails]
    /\ \E su \in BOOLEAN, pl \in BOOLEAN, fo \in BOOLEAN, cap \in {-1, 1},
          ra \in BOOLEAN, png \in BOOLEAN :
          args = [summary |-> su, plot |-> pl, folium_out |-> fo,
                  max_trees |-> cap, include_orthophoto |-> ra,
                  out_png |-> png]
    /\ stderr = <<>>
    /\ mos = MosIdle
    /\ plot = PlotIdle
    /\ fol = FolIdle
    /\ main = [MainIdle EXCEPT !.pc = "start"]
    /\ lv = LvIdle
    /\ sa = SaIdle

Next == MainNext \/ PlotNext \/ FolNext \/ MosNext

Spec == Init /\ [][Next]_vars

----------------------------------------------------------------------------
(* _load_vector called on every layer file.                                *)

RawCoords == {100 + k : k \in 0..MaxCoord}

Points == {[type |-> "Point", id |-> 0, x |-> x, y |-> y] :
              x \in RawCoords, y \in RawCoords}

Geometries == UNION {[1..n -> Points] : n \in 0..MaxFeat}

Contents ==
    {[crs |-> crs, geometry |-> g, columns |-> <<"name">>,
      data |-> <<[dtype |-> "object",
                  vals |-> [i \in 1..Len(g) |-> Val("str", i)]]>>] :
     crs \in {NoCRS} \cup CRSNames, g \in Geometries}

InitLoad ==
    /\ \E content \in Contents :
          lv = [LvIdle EXCEPT !.pc = "call", !.content = content]
    /\ env = EnvIdle
    /\ args = ArgsIdle
    /\ stderr = <<>>
    /\ mos = MosIdle
    /\ plot = PlotIdle
    /\ fol = FolIdle
    /\ main = MainIdle
    /\ sa = SaIdle

LvLoad ==
    /\ lv.pc = "call"
    /\ LET l == _load_vector("layer", lv.content)
       IN  /\ lv' = [lv EXCEPT !.pc = "returned", !.out = l.gdf,
                               !.warns = l.warns]
           /\ stderr' = stderr \o l.warns
    /\ UNCHANGED <<env, args, mos, plot, fol, main, sa>>

SpecLoad == InitLoad /\ [][LvLoad]_vars

----------------------------------------------------------------------------
(* _sanitize_attributes called on layers of MaxFeat rows with up to two    *)
(* attribute columns, with and without a retain-list.                      *)

ObjectValues ==
    {Val(k, 0) : k \in {"datetime", "Timestamp", "timedelta", "str", "int"}}

TypedColumns ==
    {[dtype |-> "datetime64[ns]",
      vals |-> [i \in 1..MaxFeat |-> Val("Timestamp", i)]],
     [dtype |-> "timedelta64[ns]",
      vals |-> [i \in 1..MaxFeat |-> Val("Timedelta", i)]],
     [dtype |-> "int64", vals |-> [i \in 1..MaxFeat |-> Val("int", i)]]}

ObjectColumns ==
    {[dtype |-> "object", vals |-> v] : v \in [1..MaxFeat -> ObjectValues]}

Frames ==
    LET geometry == [i \in 1..MaxFeat |->
                        [type |-> "Point", id |-> i, x |-> i, y |-> 2 * i]]
        Frame(columns, data) ==
            [crs |-> "EPSG:4326", geometry |-> geometry,
             columns |-> columns, data |-> data]
    IN  {Frame(<<>>, <<>>)}
        \cup {Frame(<<"a">>, <<a>>) : a \in TypedColumns \cup ObjectColumns}
        \cup {Frame(<<"a", "b">>, <<a, b>>) :
                 a \in TypedColumns \cup ObjectColumns, b \in TypedColumns}

KeepLists ==
    {[given |-> FALSE, cols |-> <<>>],
     [given |-> TRUE, cols |-> <<>>],
     [given |-> TRUE, cols |-> <<"a">>],
     [given |-> TRUE, cols |-> <<"b", "a">>],
     [given |-> TRUE, cols |-> <<"zzz", "geometry", "b">>]}

InitSanitize ==
    /\ \E gdf \in Frames, keep \in KeepLists :
          sa = [SaIdle EXCEPT !.pc = "call", !.gdf = gdf, !.keep_cols = keep]
    /\ env = EnvIdle
    /\ args = ArgsIdle
    /\ stderr = <<>>
    /\ mos = MosIdle
    /\ plot = PlotIdle
    /\ fol = FolIdle
    /\ main = MainIdle
    /\ lv = LvIdle

SaSanitize ==
    /\ sa.pc = "call"
    /\ sa' = [sa EXCEPT !.pc = "returned",
                        !.out = _sanitize_attributes(sa.gdf, sa.keep_cols)]
    /\ UNCHANGED <<env, args, stderr, mos, plot, fol, main, lv>>

SpecSanitize == InitSanitize /\ [][SaSanitize]_vars

----------------------------------------------------------------------------
(* Properties.                                                             *)

SampleError == "ValueError: negative sample size"

NoDataError == "No vector data available to center map"

MissingCrsError == "Cannot convert to WGS84; missing CRS"

(* The layers of the directory that have features.                         *)
NonEmptyLayers ==
    {n \in LayerNames :
        env.files[n].exists /\ ~IsEmpty(env.files[n].content)}

Warned(what) == \E i \in 1..Len(stderr) : stderr[i].what = what

(* C5: a layer _load_vector returns is in EPSG:25832 unless its source had *)
(* no CRS, and then it is returned as read and a warning is printed; a     *)
(* layer already in EPSG:25832 is returned as read, geometry and           *)
(* attributes.                                                             *)
C5_Normalized ==
    lv.pc = "returned" =>
        /\ (lv.content.crs # NoCRS) => (ToEpsg(lv.out.crs) = TARGET_EPSG)
        /\ (lv.content.crs = NoCRS) =>
              (/\ lv.out = lv.content
               /\ \E i \in 1..Len(stderr) :
                     stderr[i].kind = "missing CRS on layer")
        /\ (ToEpsg(lv.content.crs) = TARGET_EPSG) => (lv.out = lv.content)
        /\ lv.out.data = lv.content.data

(* A layer in another CRS was reprojected.                                 *)
C5_Witness ==
    /\ lv.pc = "returned"
    /\ lv.content.crs = "EPSG:31467"
    /\ lv.out.crs = "EPSG:25832"
    /\ Len(lv.out.geometry) = MaxFeat
    /\ lv.out.geometry # lv.content.geometry

DateTimeKinds == {"datetime", "Timestamp", "timedelta", "Timedelta"}

(* C9: after _sanitize_attributes every datetime, timestamp or timedelta   *)
(* value of a retained column, in a typed or in a mixed column, is a       *)
(* string, every other value is as it was, with a retain-list only the     *)
(* listed columns remain beside the geometry, and the geometry is as it    *)
(* was.                                                                    *)
C9_Sanitized ==
    sa.pc = "returned" =>
        /\ sa.out.geometry = sa.gdf.geometry
        /\ Range(sa.out.columns) =
              IF sa.keep_cols.given
              THEN Range(sa.gdf.columns) \cap Range(sa.keep_cols.cols)
              ELSE Range(sa.gdf.columns)
        /\ \A c \in 1..Len(sa.out.columns) :
              \A i \in 1..NRows(sa.gdf) :
                 LET was == sa.gdf.data[ColIndex(sa.gdf, sa.out.columns[c])]
                               .vals[i]
                     is == sa.out.data[c].vals[i]
                 IN  IF was.kind \in DateTimeKinds THEN is.kind = "str"
                     ELSE is = was

ZOrderClaimed == <<"raster", "parcels", "buildings", "streets", "trees">>

ZOrderDrawn == <<"raster", "trees", "parcels", "buildings", "streets">>

Pos(order, name) == CHOOSE i \in 1..Len(order) : order[i] = name

InOrder(order, drawn) ==
    \A i, j \in 1..Len(drawn) :
        i < j => Pos(order, drawn[i].layer) < Pos(order, drawn[j].layer)

(* C3: plot_layers draws in the order raster, parcels, buildings, streets, *)
(* trees: what is drawn later comes later in that order.                   *)
C3_ClaimedOrder == plot.pc = "returned" => InOrder(ZOrderClaimed, plot.drawn)

(* C3 as amended: plot_layers draws in the order raster, trees, parcels,     *)
(* buildings, streets: the raster first, the trees first of the vector     *)
(* layers and the streets last.                                            *)
C3_DrawnOrder == plot.pc = "returned" => InOrder(ZOrderDrawn, plot.drawn)

(* Every layer and the raster were drawn.                                  *)
C3_Witness == plot.pc = "returned" /\ Len(plot.drawn) = Len(ZOrderDrawn)

(* The tree layers the sampling step of either composer has passed on.     *)
TreesPassedOn ==
    {plot.layers[i].gdf :
        i \in {j \in 1..Len(plot.layers) : plot.layers[j].name = "trees"}}
    \cup (IF fol.pc \in {"center", "add", "save", "returned"}
             \/ (fol.pc = "raised" /\ fol.err # SampleError)
          THEN {fol.layers["trees"]} ELSE {})

LoadedTrees == LoadOrEmpty("trees").gdf

(* C4: for every size of the tree layer and every cap, a layer of more     *)
(* features than the cap is reduced to exactly cap features and any other  *)
(* is passed on unchanged.                                                 *)
C4_EveryCap ==
    /\ plot.err # SampleError
    /\ fol.err # SampleError
    /\ \A t \in TreesPassedOn :
          IF NRows(LoadedTrees) > args.max_trees
          THEN NRows(t) = args.max_trees
          ELSE t = LoadedTrees

(* C4 as amended: for a positive cap, a layer of more features than the cap  *)
(* is reduced to exactly cap of its features and any other is passed on    *)
(* unchanged; with the cap 0 every layer is passed on unchanged; a         *)
(* negative cap makes the sampling fail, and only a negative cap does.     *)
C4_PositiveCap ==
    /\ \A t \in TreesPassedOn :
          IF args.max_trees > 0 /\ NRows(LoadedTrees) > args.max_trees
          THEN /\ NRows(t) = args.max_trees
               /\ Range(t.geometry) \subseteq Range(LoadedTrees.geometry)
               /\ Cardinality(Range(t.geometry)) = args.max_trees
          ELSE t = LoadedTrees
    /\ (plot.err = SampleError \/ fol.err = SampleError) => args.max_trees < 0
    /\ args.max_trees < 0 => TreesPassedOn = {}

(* A layer of more trees than a cap of at least 2 was cut to the cap.      *)
C4_Witness ==
    /\ args.max_trees >= 2
    /\ NRows(LoadedTrees) > args.max_trees
    /\ \E t \in TreesPassedOn : NRows(t) = args.max_trees

(* The union bounding box, in WGS84, of the layers S as loaded contains    *)
(* the center c.                                                           *)
CenterWithin(c, S) ==
    LET pts == UNION {Range(_to_wgs84(LoadOrEmpty(n).gdf).geometry) : n \in S}
        xs == {p.x : p \in pts}
        ys == {p.y : p \in pts}
    IN  /\ c # <<>>
        /\ c.lon.den * SetMin(xs) <= c.lon.num
        /\ c.lon.num <= c.lon.den * SetMax(xs)
        /\ c.lat.den * SetMin(ys) <= c.lat.num
        /\ c.lat.num <= c.lat.den * SetMax(ys)

FolDone == fol.pc \in {"returned", "raised"}

(* C2: export_folium_map fails with the 'no data' error when all five      *)
(* layers are absent or empty, and otherwise succeeds with a center inside *)
(* the union bounding box of the non-empty layers (read in the claim's     *)
(* favour: for the caps that are not negative, since a negative cap fails  *)
(* in the sampling before the layers are looked at).                       *)
C2_SucceedsWithData ==
    (FolDone /\ args.max_trees >= 0) =>
        IF NonEmptyLayers = {}
        THEN fol.pc = "raised" /\ fol.err = NoDataError
        ELSE fol.pc = "returned" /\ CenterWithin(fol.center, NonEmptyLayers)

HasCrs(n) == env.files[n].content.crs # NoCRS

TreesArePoints ==
    \A i \in 1..NRows(env.files["trees"].content) :
        env.files["trees"].content.geometry[i].type = "Point"

(* C2 as amended: with a cap that is not negative, export_folium_map fails   *)
(* with the 'no data' error when all five layers are absent or empty;      *)
(* fails with the 'missing CRS' error when a non-empty layer has no CRS;   *)
(* and succeeds, with a center inside the union bounding box of the        *)
(* non-empty layers, when there is a non-empty layer, every non-empty      *)
(* layer has a CRS and the trees are points.                               *)
C2_SucceedsWithCrs ==
    (FolDone /\ args.max_trees >= 0) =>
        /\ (NonEmptyLayers = {}) =>
              (fol.pc = "raised" /\ fol.err = NoDataError)
        /\ (\E n \in NonEmptyLayers : ~HasCrs(n)) =>
              (fol.pc = "raised" /\ fol.err = MissingCrsError)
        /\ (/\ NonEmptyLayers # {}
            /\ \A n \in NonEmptyLayers : HasCrs(n)
            /\ TreesArePoints) =>
              (/\ fol.pc = "returned"
               /\ CenterWithin(fol.center, NonEmptyLayers))

(* A map of at least three layers, the trees among them, whose center is   *)
(* not the middle of the union bounding box.                               *)
C2_Witness ==
    /\ fol.pc = "returned"
    /\ Cardinality(NonEmptyLayers) >= 3
    /\ "trees" \in NonEmptyLayers
    /\ CenterWithin(fol.center, NonEmptyLayers)
    /\ ~CenterWithin(fol.center, NonEmptyLayers \ {"trees"})

PlotNames == {"trees", "parcels", "buildings", "streets"}

(* C6: in plot_layers, whatever layer files are absent, the run draws      *)
(* exactly the layers that are present and warns on the diagnostic stream  *)
(* about each absent layer.                                                *)
C6_WarnsEachAbsent ==
    plot.pc = "returned" =>
        /\ {plot.drawn[i].layer : i \in 1..Len(plot.drawn)} \ {"raster"}
              = NonEmptyLayers \cap PlotNames
        /\ \A n \in PlotNames : ~env.files[n].exists => Warned(n)

(* The overlays of the map: the shapes and the markers.                    *)
Overlays(m) ==
    {i \in 1..Len(m) : m[i].kind \in {"GeoJson", "CircleMarker"}}

Markers(m) == {i \in 1..Len(m) : m[i].kind = "CircleMarker"}

(* C7: export_folium_map emits an overlay for exactly the non-empty        *)
(* layers: one shape overlay per non-empty polygon or line layer, one      *)
(* marker per sampled tree, three overlays and no marker when only         *)
(* parcels, buildings and streets are there; and the layer control lists   *)
(* every overlay emitted.                                                  *)
C7_ControlCoversOverlays ==
    fol.pc = "returned" =>
        /\ \A n \in LayerNames \ {"trees"} :
              Cardinality({i \in 1..Len(fol.m) :
                              /\ fol.m[i].kind = "GeoJson"
                              /\ fol.m[i].name = OverlayName(n)})
                 = IF n \in NonEmptyLayers THEN 1 ELSE 0
        /\ Cardinality(Markers(fol.m)) = NRows(fol.layers["trees"])
        /\ (NonEmptyLayers = {"parcels", "buildings", "streets"}) =>
              (Cardinality(Overlays(fol.m)) = 3 /\ Markers(fol.m) = {})
        /\ \A i \in Overlays(fol.m) : fol.m[i].name \in fol.control

Requested ==
    (IF args.summary THEN <<"summary">> ELSE <<>>)
    \o (IF args.plot THEN <<"plot">> ELSE <<>>)
    \o (IF args.folium_out THEN <<"folium">> ELSE <<>>)

IsPrefix(a, b) == Len(a) <= Len(b) /\ a = SubSeq(b, 1, Len(a))

NoFlags == ~(args.summary \/ args.plot \/ args.folium_out)

(* C8: main checks the data directory before any operation; with no flag   *)
(* it reports 'nothing to do', returns 1 and runs nothing; otherwise it    *)
(* runs the requested operations, in the order summary, plot, folium, and  *)
(* when it returns it has run exactly those, none has failed, and it       *)
(* returns 0.                                                              *)
C8_Dispatch ==
    /\ (main.ops # <<>> \/ plot.pc # "idle" \/ fol.pc # "idle"
           \/ mos.pc # "idle" \/ main.stdout # <<>>)
          => (env.dir_exists /\ main.pc # "start")
    /\ (~env.dir_exists /\ main.pc # "start") => main.pc = "raised"
    /\ IsPrefix(main.ops, Requested)
    /\ (plot.pc # "idle") <=> ("plot" \in Range(main.ops))
    /\ (fol.pc # "idle") <=> ("folium" \in Range(main.ops))
    /\ (main.stdout # <<>>) => ("summary" \in Range(main.ops))
    /\ (NoFlags /\ env.dir_exists /\ main.pc \notin {"start", "flags"})
          => (/\ main.pc = "returned"
              /\ main.ret = 1
              /\ main.ops = <<>>
              /\ Warned("main"))
    /\ (main.pc = "returned" /\ ~NoFlags)
          => (/\ main.ret = 0
              /\ main.ops = Requested
              /\ plot.pc # "raised"
              /\ fol.pc # "raised")

(* All three operations ran and main returned 0.                           *)
C8_Witness ==
    /\ main.pc = "returned"
    /\ main.ret = 0
    /\ main.ops = <<"summary", "plot", "folium">>
    /\ plot.pc = "returned"
    /\ fol.pc = "returned"

====
